---- MODULE Spec2Model ----
(***************************************************************************)
(* Model of find_dupes.go: the duplicate analysis (analyzeDuplicates,      *)
(* filterDuplicateFiles, ignoreFile), the manifest builder                 *)
(* (getGoogleDriveManifest) and the goroutine pipeline of main (scan       *)
(* goroutine, relay goroutine, progress consumer, main).                   *)
(***************************************************************************)
EXTENDS Integers, Sequences, FiniteSets, TLC

VARIABLES
    manifest,        \* getGoogleDriveManifest: local `manifest` (map hash -> []*File)
    driveManifest,   \* main: driveManifest
    driveError,      \* main: driveError (TRUE = non-nil)
    report,          \* main: report (result of analyzeDuplicates)
    report2,         \* result of a second analyzeDuplicates call on the same manifest
    input,           \* the manifest as it was handed to the first analyzeDuplicates call
    runs,            \* number of analyzeDuplicates calls made
    mainPC,          \* position of main
    scanPC,          \* position of the scan goroutine (main.func1 / getGoogleDriveManifest)
    relayPC,         \* position of the relay goroutine (getGoogleDriveManifest.func1)
    consPC,          \* position of the progress consumer goroutine (main.func2)
    count,           \* last count the listing has produced
    relayVal,        \* updateCount held by the relay goroutine
    received,        \* history of the counts the consumer received from progressChan
    shown,           \* last count written to stderr by the consumer (0: none)
    verbose,         \* opts.Verbose
    progressClosed,  \* progressChan is closed
    updateClosed,    \* updateChan is closed
    files,           \* getGoogleDriveManifest: `files`, the part not yet inserted
    listed,          \* the records listing.Files returned
    err,             \* getGoogleDriveManifest: `err` (TRUE = non-nil)
    wgCount,         \* sync.WaitGroup counter
    exit             \* process outcome

vars == <<manifest, driveManifest, driveError, report, report2, input, runs,
          mainPC, scanPC, relayPC, consPC, count, relayVal, received, shown,
          verbose, progressClosed, updateClosed, files, listed, err, wgCount, exit>>

pipelineVars == <<mainPC, scanPC, relayPC, consPC, count, relayVal, received, shown,
                  verbose, progressClosed, updateClosed, files, listed, err, wgCount,
                  exit, driveManifest, driveError>>

----------------------------------------------------------------------------
(* Bounds *)

MaxFiles == 6       \* records in a manifest handed to the analyzer
MaxListing == 2     \* records returned by listing.Files in the pipeline
MaxCount == 3       \* counts the listing emits (N)

Hashes == {"h1", "h2", "h3"}
Sizes == {999, 1000, 2000}
ListingHashes == {"h1", "h2"}
ListingSizes == {999, 2000}

----------------------------------------------------------------------------
(* Data model *)

File(path, size, hash) == [Path |-> path, Size |-> size, ContentHash |-> hash]

EmptyManifest == <<>>

EmptyReport == [Duplications |-> <<>>, TotalDuplicateCount |-> 0, TotalDuplicateSize |-> 0]

Bucket(m, hash) == IF hash \in DOMAIN m THEN m[hash] ELSE <<>>

InsertFile(m, file) ==
    [h \in (DOMAIN m) \cup {file.ContentHash} |->
        IF h = file.ContentHash THEN Append(Bucket(m, h), file) ELSE m[h]]

ManifestSize(m) == LET RECURSIVE Tot(_)
                       Tot(S) == IF S = {} THEN 0
                                 ELSE LET h == CHOOSE x \in S : TRUE
                                      IN Len(m[h]) + Tot(S \ {h})
                   IN Tot(DOMAIN m)

----------------------------------------------------------------------------
(* Filter policy *)

IgnoreThreshold == 1000

ignoreFileInclusive(file) == file.Size <= IgnoreThreshold

ignoreFile(file) == file.Size < IgnoreThreshold

RECURSIVE filterDuplicateFiles(_)
filterDuplicateFiles(fs) ==
    IF fs = <<>> THEN <<>>
    ELSE IF ~ignoreFile(Head(fs))
         THEN <<Head(fs)>> \o filterDuplicateFiles(Tail(fs))
         ELSE filterDuplicateFiles(Tail(fs))

----------------------------------------------------------------------------
(* Duplicate analyzer *)

\* Sizes in the model stay far below 2^64, so the uint64 sums never wrap.

RECURSIVE duplicateCount(_, _)
duplicateCount(filteredFiles, idx) ==
    IF idx > Len(filteredFiles) THEN 0
    ELSE (IF idx = 1 THEN 0 ELSE 1) + duplicateCount(filteredFiles, idx + 1)

RECURSIVE duplicateSizeAll(_, _)
duplicateSizeAll(filteredFiles, idx) ==
    IF idx > Len(filteredFiles) THEN 0
    ELSE filteredFiles[idx].Size + duplicateSizeAll(filteredFiles, idx + 1)

RECURSIVE duplicateSize(_, _)
duplicateSize(filteredFiles, idx) ==
    IF idx > Len(filteredFiles) THEN 0
    ELSE (IF idx = 1 THEN 0 ELSE filteredFiles[idx].Size)
         + duplicateSize(filteredFiles, idx + 1)

Duplication(hash, filteredFiles, dc, ds) ==
    [ContentHash |-> hash, Files |-> filteredFiles,
     DuplicateCount |-> dc, DuplicateSize |-> ds]

\* mutant: the totals are assigned instead of accumulated
analyzeBucketAssign(rep, hash, fs) ==
    IF Len(fs) <= 1 THEN rep
    ELSE LET filteredFiles == filterDuplicateFiles(fs) IN
         IF Len(filteredFiles) <= 1 THEN rep
         ELSE LET dc == duplicateCount(filteredFiles, 1)
                  ds == duplicateSize(filteredFiles, 1)
              IN [Duplications |-> Append(rep.Duplications,
                                          Duplication(hash, filteredFiles, dc, ds)),
                  TotalDuplicateCount |-> dc,
                  TotalDuplicateSize |-> ds]

\* mutant: duplicateCount/duplicateSize are declared outside the bucket loop
\* and carry over from the buckets visited before
analyzeBucketCarry(rep, hash, fs) ==
    IF Len(fs) <= 1 THEN rep
    ELSE LET filteredFiles == filterDuplicateFiles(fs) IN
         IF Len(filteredFiles) <= 1 THEN rep
         ELSE LET dc == rep.TotalDuplicateCount + duplicateCount(filteredFiles, 1)
                  ds == rep.TotalDuplicateSize + duplicateSize(filteredFiles, 1)
              IN [Duplications |-> Append(rep.Duplications,
                                          Duplication(hash, filteredFiles, dc, ds)),
                  TotalDuplicateCount |-> dc,
                  TotalDuplicateSize |-> ds]

\* one iteration of `for hash, files := range manifest`
analyzeBucket(rep, hash, fs) ==
    IF Len(fs) <= 1 THEN rep
    ELSE LET filteredFiles == filterDuplicateFiles(fs) IN
         IF Len(filteredFiles) <= 1 THEN rep
         ELSE LET dc == duplicateCount(filteredFiles, 1)
                  ds == duplicateSize(filteredFiles, 1)
              IN [Duplications |-> Append(rep.Duplications,
                                          Duplication(hash, filteredFiles, dc, ds)),
                  TotalDuplicateCount |-> rep.TotalDuplicateCount + dc,
                  TotalDuplicateSize |-> rep.TotalDuplicateSize + ds]

sortLessAscending(data, i, j) == data[i].DuplicateSize <= data[j].DuplicateSize

\* the less function handed to sort.Slice
sortLess(data, i, j) == data[i].DuplicateSize >= data[j].DuplicateSize

Swap(data, i, j) == [data EXCEPT ![i] = data[j], ![j] = data[i]]

\* sort.Slice on at most 12 elements is an insertion sort driven by less:
\*   for i := a+1; i < b; i++ { for j := i; j > a && less(j, j-1); j-- { swap(j, j-1) } }
RECURSIVE sinkLeft(_, _)
sinkLeft(data, j) ==
    IF j > 1 /\ sortLess(data, j, j - 1)
    THEN sinkLeft(Swap(data, j, j - 1), j - 1)
    ELSE data

RECURSIVE insertionSort(_, _)
insertionSort(data, i) ==
    IF i > Len(data) THEN data
    ELSE insertionSort(sinkLeft(data, i), i + 1)

sortSlice(data) == insertionSort(data, 2)

\* the orders in which `range manifest` may visit the keys of a map
IterationOrders(m) ==
    LET n == Cardinality(DOMAIN m) IN
    {o \in [1..n -> DOMAIN m] : \A i, j \in 1..n : i # j => o[i] # o[j]}

RECURSIVE rangeManifest(_, _, _, _)
rangeManifest(rep, m, order, k) ==
    IF k > Len(order) THEN rep
    ELSE rangeManifest(analyzeBucket(rep, order[k], m[order[k]]), m, order, k + 1)

analyzeDuplicates(m, order) ==
    LET rep == rangeManifest(EmptyReport, m, order, 1)
    IN [rep EXCEPT !.Duplications = sortSlice(rep.Duplications)]

----------------------------------------------------------------------------
(* Analysis on its own: build a manifest record by record, analyze it twice *)

InitPipeline ==
    /\ mainPC = "wait"
    /\ scanPC = "listing"
    /\ relayPC = "recvUpdate"
    /\ consPC = "recv"
    /\ count = 0
    /\ relayVal = 0
    /\ received = <<>>
    /\ shown = 0
    /\ progressClosed = FALSE
    /\ updateClosed = FALSE
    /\ files = <<>>
    /\ listed = <<>>
    /\ err = FALSE
    /\ wgCount = 1
    /\ exit = "running"
    /\ driveManifest = EmptyManifest
    /\ driveError = FALSE

InitAnalysis ==
    /\ manifest = EmptyManifest
    /\ report = EmptyReport
    /\ report2 = EmptyReport
    /\ input = EmptyManifest
    /\ runs = 0

InitAnalyze ==
    /\ InitPipeline
    /\ InitAnalysis
    /\ verbose = FALSE

\* manifest[file.ContentHash] = append(manifest[file.ContentHash], file)
AddRecord ==
    /\ runs = 0
    /\ ManifestSize(manifest) < MaxFiles
    /\ \E h \in Hashes, s \in Sizes :
         manifest' = InsertFile(manifest,
                                File(<<h, Len(Bucket(manifest, h)) + 1>>, s, h))
    /\ UNCHANGED <<report, report2, input, runs>>
    /\ UNCHANGED pipelineVars

AnalyzeFirst ==
    /\ runs = 0
    /\ \E order \in IterationOrders(manifest) :
         report' = analyzeDuplicates(manifest, order)
    /\ input' = manifest
    /\ runs' = 1
    /\ UNCHANGED <<manifest, report2>>
    /\ UNCHANGED pipelineVars

AnalyzeSecond ==
    /\ runs = 1
    /\ \E order \in IterationOrders(manifest) :
         report2' = analyzeDuplicates(manifest, order)
    /\ runs' = 2
    /\ UNCHANGED <<manifest, report, input>>
    /\ UNCHANGED pipelineVars

NextAnalyze == AddRecord \/ AnalyzeFirst \/ AnalyzeSecond

SpecAnalyze == InitAnalyze /\ [][NextAnalyze]_vars

----------------------------------------------------------------------------
(* The pipeline of main: scan goroutine, relay goroutine, consumer, main *)

Running == exit = "running"

Last(seq) == seq[Len(seq)]

\* the records listing.Files may return
ListingRecords(n) ==
    {[i \in 1..n |-> File(i, ks[i][2], ks[i][1])] :
        ks \in [1..n -> ListingHashes \X ListingSizes]}

Listings == UNION {ListingRecords(n) : n \in 0..MaxListing}

Init ==
    /\ InitPipeline
    /\ InitAnalysis
    /\ verbose \in BOOLEAN

\* listing.Files produces the next count and starts `updateChan <- count`
ScanEmit ==
    /\ Running
    /\ scanPC = "listing"
    /\ count < MaxCount
    /\ count' = count + 1
    /\ scanPC' = "sendUpdate"
    /\ UNCHANGED <<manifest, driveManifest, driveError, report, report2, input, runs,
                   mainPC, relayPC, consPC, relayVal, received, shown, verbose,
                   progressClosed, updateClosed, files, listed, err, wgCount, exit>>

\* the unbuffered updateChan hands the count to `for updateCount := range updateChan`
UpdateHandoff ==
    /\ Running
    /\ scanPC = "sendUpdate"
    /\ relayPC = "recvUpdate"
    /\ relayVal' = count
    /\ relayPC' = "sendProgress"
    /\ scanPC' = "listing"
    /\ UNCHANGED <<manifest, driveManifest, driveError, report, report2, input, runs,
                   mainPC, consPC, count, received, shown, verbose,
                   progressClosed, updateClosed, files, listed, err, wgCount, exit>>

\* files, err := listing.Files(updateChan) returns; if err != nil { return }
\* (getGoogleDriveManifest never closes updateChan; whether the listing does is its choice)
ListingReturn ==
    /\ Running
    /\ scanPC = "listing"
    /\ \E failed \in BOOLEAN, closes \in BOOLEAN :
         /\ err' = failed
         /\ updateClosed' = closes
         /\ IF failed
            THEN /\ files' = <<>>
                 /\ listed' = <<>>
            ELSE /\ \E fs \in Listings : files' = fs /\ listed' = fs
    /\ scanPC' = "insert"
    /\ UNCHANGED <<manifest, driveManifest, driveError, report, report2, input, runs,
                   mainPC, relayPC, consPC, count, relayVal, received, shown, verbose,
                   progressClosed, wgCount, exit>>

\* for _, file := range files { manifest[file.ContentHash] = append(...) }
ScanInsert ==
    /\ Running
    /\ scanPC = "insert"
    /\ ~err
    /\ files # <<>>
    /\ manifest' = InsertFile(manifest, Head(files))
    /\ files' = Tail(files)
    /\ UNCHANGED <<driveManifest, driveError, report, report2, input, runs,
                   mainPC, scanPC, relayPC, consPC, count, relayVal, received, shown,
                   verbose, progressClosed, updateClosed, listed, err, wgCount, exit>>

\* driveManifest, driveError = getGoogleDriveManifest(...)
ScanReturn ==
    /\ Running
    /\ scanPC = "insert"
    /\ err \/ files = <<>>
    /\ driveManifest' = manifest
    /\ driveError' = err
    /\ scanPC' = "wgDone"
    /\ UNCHANGED <<manifest, report, report2, input, runs,
                   mainPC, relayPC, consPC, count, relayVal, received, shown, verbose,
                   progressClosed, updateClosed, files, listed, err, wgCount, exit>>

\* wg.Done()
ScanDone ==
    /\ Running
    /\ scanPC = "wgDone"
    /\ wgCount' = wgCount - 1
    /\ scanPC' = "done"
    /\ UNCHANGED <<manifest, driveManifest, driveError, report, report2, input, runs,
                   mainPC, relayPC, consPC, count, relayVal, received, shown, verbose,
                   progressClosed, updateClosed, files, listed, err, exit>>

\* progressChan <- &scanProgressUpdate{Count: updateCount} meets the consumer's receive
ProgressHandoff ==
    /\ Running
    /\ relayPC = "sendProgress"
    /\ consPC = "recv"
    /\ ~progressClosed
    /\ received' = Append(received, relayVal)
    /\ consPC' = "print"
    /\ relayPC' = "recvUpdate"
    /\ UNCHANGED <<manifest, driveManifest, driveError, report, report2, input, runs,
                   mainPC, scanPC, count, relayVal, shown, verbose,
                   progressClosed, updateClosed, files, listed, err, wgCount, exit>>

\* progressChan <- ... on a closed channel: runtime panic, the process dies
RelaySendOnClosed ==
    /\ Running
    /\ relayPC = "sendProgress"
    /\ progressClosed
    /\ exit' = "panic: send on closed channel"
    /\ UNCHANGED <<manifest, driveManifest, driveError, report, report2, input, runs,
                   mainPC, scanPC, relayPC, consPC, count, relayVal, received, shown,
                   verbose, progressClosed, updateClosed, files, listed, err, wgCount>>

\* `range updateChan` ends once updateChan is closed
RelayExit ==
    /\ Running
    /\ relayPC = "recvUpdate"
    /\ updateClosed
    /\ relayPC' = "done"
    /\ UNCHANGED <<manifest, driveManifest, driveError, report, report2, input, runs,
                   mainPC, scanPC, consPC, count, relayVal, received, shown, verbose,
                   progressClosed, updateClosed, files, listed, err, wgCount, exit>>

\* if opts.Verbose { fmt.Fprintf(os.Stderr, "Scanning: %d files\r", update.Count) }
ConsumerPrint ==
    /\ Running
    /\ consPC = "print"
    /\ shown' = IF verbose THEN Last(received) ELSE shown
    /\ consPC' = "recv"
    /\ UNCHANGED <<manifest, driveManifest, driveError, report, report2, input, runs,
                   mainPC, scanPC, relayPC, count, relayVal, received, verbose,
                   progressClosed, updateClosed, files, listed, err, wgCount, exit>>

\* `range progressChan` ends once progressChan is closed; fmt.Fprintf(os.Stderr, "\n")
ConsumerExit ==
    /\ Running
    /\ consPC = "recv"
    /\ progressClosed
    /\ consPC' = "done"
    /\ UNCHANGED <<manifest, driveManifest, driveError, report, report2, input, runs,
                   mainPC, scanPC, relayPC, count, relayVal, received, shown, verbose,
                   progressClosed, updateClosed, files, listed, err, wgCount, exit>>

\* mutant: main does not wait for the scan goroutine
MainWaitNoBarrier ==
    /\ Running
    /\ mainPC = "wait"
    /\ mainPC' = "close"
    /\ UNCHANGED <<manifest, driveManifest, driveError, report, report2, input, runs,
                   scanPC, relayPC, consPC, count, relayVal, received, shown, verbose,
                   progressClosed, updateClosed, files, listed, err, wgCount, exit>>

\* wg.Wait()
MainWait ==
    /\ Running
    /\ mainPC = "wait"
    /\ wgCount = 0
    /\ mainPC' = "close"
    /\ UNCHANGED <<manifest, driveManifest, driveError, report, report2, input, runs,
                   scanPC, relayPC, consPC, count, relayVal, received, shown, verbose,
                   progressClosed, updateClosed, files, listed, err, wgCount, exit>>

\* close(progressChan)
MainClose ==
    /\ Running
    /\ mainPC = "close"
    /\ progressClosed' = TRUE
    /\ mainPC' = "check"
    /\ UNCHANGED <<manifest, driveManifest, driveError, report, report2, input, runs,
                   scanPC, relayPC, consPC, count, relayVal, received, shown, verbose,
                   updateClosed, files, listed, err, wgCount, exit>>

\* mutant: the fatal-error check is missing
MainCheckIgnoresError ==
    /\ Running
    /\ mainPC = "check"
    /\ mainPC' = "analyze"
    /\ UNCHANGED <<manifest, driveManifest, driveError, report, report2, input, runs,
                   scanPC, relayPC, consPC, count, relayVal, received, shown, verbose,
                   progressClosed, updateClosed, files, listed, err, wgCount, exit>>

\* if driveError != nil { panic(driveError) }
MainCheck ==
    /\ Running
    /\ mainPC = "check"
    /\ IF driveError
       THEN exit' = "panic: driveError" /\ mainPC' = mainPC
       ELSE exit' = exit /\ mainPC' = "analyze"
    /\ UNCHANGED <<manifest, driveManifest, driveError, report, report2, input, runs,
                   scanPC, relayPC, consPC, count, relayVal, received, shown, verbose,
                   progressClosed, updateClosed, files, listed, err, wgCount>>

\* report := analyzeDuplicates(driveManifest)
MainAnalyze ==
    /\ Running
    /\ mainPC = "analyze"
    /\ \E order \in IterationOrders(driveManifest) :
         report' = analyzeDuplicates(driveManifest, order)
    /\ input' = driveManifest
    /\ runs' = runs + 1
    /\ mainPC' = "print"
    /\ UNCHANGED <<manifest, driveManifest, driveError, report2,
                   scanPC, relayPC, consPC, count, relayVal, received, shown, verbose,
                   progressClosed, updateClosed, files, listed, err, wgCount, exit>>

\* the report is printed and main returns: the process exits with status 0
MainPrint ==
    /\ Running
    /\ mainPC = "print"
    /\ mainPC' = "done"
    /\ exit' = "ok"
    /\ UNCHANGED <<manifest, driveManifest, driveError, report, report2, input, runs,
                   scanPC, relayPC, consPC, count, relayVal, received, shown, verbose,
                   progressClosed, updateClosed, files, listed, err, wgCount>>

Next ==
    \/ ScanEmit \/ UpdateHandoff \/ ListingReturn \/ ScanInsert \/ ScanReturn \/ ScanDone
    \/ ProgressHandoff \/ RelaySendOnClosed \/ RelayExit
    \/ ConsumerPrint \/ ConsumerExit
    \/ MainWait \/ MainClose \/ MainCheck \/ MainAnalyze \/ MainPrint

Spec == Init /\ [][Next]_vars

\* every goroutine that can take a step eventually takes one
Fairness ==
    /\ WF_vars(ScanEmit) /\ WF_vars(UpdateHandoff) /\ WF_vars(ListingReturn)
    /\ WF_vars(ScanInsert) /\ WF_vars(ScanReturn) /\ WF_vars(ScanDone)
    /\ WF_vars(ProgressHandoff) /\ WF_vars(RelaySendOnClosed) /\ WF_vars(RelayExit)
    /\ WF_vars(ConsumerPrint) /\ WF_vars(ConsumerExit)
    /\ WF_vars(MainWait) /\ WF_vars(MainClose) /\ WF_vars(MainCheck)
    /\ WF_vars(MainAnalyze) /\ WF_vars(MainPrint)

FairSpec == Spec /\ Fairness

----------------------------------------------------------------------------
(* Properties of the pipeline (checked under Spec and FairSpec) *)

Panicked == exit \in {"panic: driveError", "panic: send on closed channel"}

\* C1: for a scan that sends 1..N and returns successfully, the counts the
\* consumer received form a non-decreasing subsequence of 1..N, and once main
\* has executed close(progressChan) the last count received is N.
C1_FinalCountBeforeClose ==
    /\ \A i \in DOMAIN received : received[i] \in 1..count
    /\ \A i, j \in DOMAIN received : i < j => received[i] <= received[j]
    /\ (progressClosed /\ ~err /\ count >= 1) =>
          (received # <<>> /\ Last(received) = count)

\* C2: closing the progress relay never panics: when progressChan is closed
\* the relay goroutine holds no undelivered update and no send on the closed
\* channel happens; the consumer's range loop ends only by the close.
C2_CloseNeverPanics ==
    /\ exit # "panic: send on closed channel"
    /\ progressClosed => relayPC # "sendProgress"
    /\ consPC = "done" => progressClosed

\* C3: main closes progressChan, reads driveManifest/driveError and calls
\* analyzeDuplicates only after the scan goroutine has inserted every record,
\* returned from getGoogleDriveManifest and called wg.Done.
C3_BarrierOrdersDownstream ==
    (mainPC # "wait" \/ progressClosed \/ runs > 0) =>
      /\ scanPC = "done"
      /\ wgCount = 0
      /\ files = <<>>
      /\ driveManifest = manifest
      /\ driveError = err
      /\ ManifestSize(driveManifest) = Len(listed)
      /\ \A i \in DOMAIN listed :
           \E j \in DOMAIN Bucket(driveManifest, listed[i].ContentHash) :
             driveManifest[listed[i].ContentHash][j] = listed[i]

C3_Witness ==
    /\ runs = 1
    /\ input = driveManifest
    /\ Len(listed) = MaxListing
    /\ scanPC = "done"

\* C8: when listing.Files fails, analyzeDuplicates is never called, no report
\* and no partial manifest is used, and the process ends with a failure,
\* whatever number of progress updates was relayed before.
C8_ScanFailureAborts ==
    /\ [](err => /\ runs = 0
                 /\ report = EmptyReport
                 /\ manifest = EmptyManifest
                 /\ mainPC \notin {"analyze", "print", "done"}
                 /\ exit # "ok")
    /\ (err ~> Panicked)

C8_Witness ==
    /\ err
    /\ exit = "panic: driveError"
    /\ Len(received) >= 2
    /\ runs = 0

\* C9: every send of the scan on updateChan is eventually accepted, the scan
\* reaches wg.Done, main passes wg.Wait, and after a successful scan main
\* reaches the analysis step.
C9_ScanNeverBlockedAnalysisReached ==
    /\ (scanPC = "sendUpdate") ~> (scanPC = "listing")
    /\ <>(wgCount = 0)
    /\ <>(mainPC # "wait")
    /\ ((scanPC = "insert" /\ ~err) ~> (runs >= 1))

----------------------------------------------------------------------------
(* Properties of the analyzer (checked under SpecAnalyze) *)

RECURSIVE SumSizes(_)
SumSizes(fs) == IF fs = <<>> THEN 0 ELSE Head(fs).Size + SumSizes(Tail(fs))

RECURSIVE SumField(_, _)
SumField(ds, field) == IF ds = <<>> THEN 0 ELSE Head(ds)[field] + SumField(Tail(ds), field)

Kept(fs) == SelectSeq(fs, LAMBDA f : f.Size >= 1000)

Groups(rep) == {rep.Duplications[k] : k \in DOMAIN rep.Duplications}

GroupsOf(rep, hash) == {k \in DOMAIN rep.Duplications : rep.Duplications[k].ContentHash = hash}

\* C4: in every group of the report duplicateCount is the number of filtered
\* files minus one and duplicateSize is the sum of the sizes of all filtered
\* files but the first; the excluded keeper is the first record of the bucket
\* that survives filtering, not the first record of the bucket.
C4_CountAndSizeExcludeKeeper ==
    runs >= 1 =>
      \A k \in DOMAIN report.Duplications :
        LET g == report.Duplications[k]
            b == Bucket(input, g.ContentHash)
        IN /\ g.DuplicateCount = Len(g.Files) - 1
           /\ g.DuplicateSize = SumSizes(Tail(g.Files))
           /\ \E i \in DOMAIN b :
                /\ b[i].Size >= 1000
                /\ \A j \in 1..(i - 1) : b[j].Size < 1000
                /\ g.Files[1] = b[i]

C4_Witness ==
    /\ runs >= 1
    /\ \E k \in DOMAIN report.Duplications :
         LET g == report.Duplications[k]
             b == Bucket(input, g.ContentHash)
         IN /\ Len(b) = 3 /\ b[1].Size = 999 /\ b[2].Size = 2000 /\ b[3].Size = 2000
            /\ g.Files = <<b[2], b[3]>>
            /\ g.DuplicateCount = 1
            /\ g.DuplicateSize = 2000

\* C5: a fingerprint is a group of the report iff its bucket holds at least
\* two records of size >= 1000 (999 ignored, 1000 kept); the group's files
\* are the kept records of the bucket in their original order; a fingerprint
\* appears at most once.
C5_GroupIffTwoKept ==
    runs >= 1 =>
      /\ \A h \in Hashes :
           /\ (GroupsOf(report, h) # {}) <=> (Len(Kept(Bucket(input, h))) >= 2)
           /\ Cardinality(GroupsOf(report, h)) <= 1
      /\ \A k \in DOMAIN report.Duplications :
           /\ report.Duplications[k].ContentHash \in DOMAIN input
           /\ report.Duplications[k].Files
                = Kept(input[report.Duplications[k].ContentHash])

C5_Witness ==
    /\ runs >= 1
    /\ \E h1 \in Hashes, h2 \in Hashes :
         /\ GroupsOf(report, h1) # {}
         /\ \E i \in DOMAIN Bucket(input, h1) : input[h1][i].Size = 1000
         /\ \E i \in DOMAIN Bucket(input, h1) : input[h1][i].Size = 999
         /\ GroupsOf(report, h2) = {}
         /\ Len(Bucket(input, h2)) >= 2
         /\ \E i \in DOMAIN Bucket(input, h2) : input[h2][i].Size = 999

\* C6: the totals of the report are the sums of duplicateCount and of
\* duplicateSize over its groups; with no surviving group the report has no
\* group and both totals are zero.
C6_TotalsAreSums ==
    runs >= 1 =>
      /\ report.TotalDuplicateCount = SumField(report.Duplications, "DuplicateCount")
      /\ report.TotalDuplicateSize = SumField(report.Duplications, "DuplicateSize")
      /\ (\A h \in Hashes : Len(Kept(Bucket(input, h))) < 2) =>
            /\ report.Duplications = <<>>
            /\ report.TotalDuplicateCount = 0
            /\ report.TotalDuplicateSize = 0

C6_Witness ==
    /\ runs >= 1
    /\ Len(report.Duplications) >= 2
    /\ report.TotalDuplicateCount >= 3
    /\ report.TotalDuplicateSize = SumField(report.Duplications, "DuplicateSize")

\* C7: the duplications are ordered by duplicateSize descending (every
\* adjacent pair), also with groups of equal duplicateSize under the >=
\* comparator, and the sort neither drops nor duplicates a group.
C7_SortedDescending ==
    runs >= 1 =>
      /\ \A i \in 1..(Len(report.Duplications) - 1) :
           report.Duplications[i].DuplicateSize >= report.Duplications[i + 1].DuplicateSize
      /\ Len(report.Duplications)
           = Cardinality({h \in Hashes : Len(Kept(Bucket(input, h))) >= 2})
      /\ \A i, j \in DOMAIN report.Duplications :
           i # j => report.Duplications[i].ContentHash # report.Duplications[j].ContentHash

C7_Witness ==
    /\ runs >= 1
    /\ Len(report.Duplications) = 3
    /\ report.Duplications[1].DuplicateSize > report.Duplications[2].DuplicateSize
    /\ report.Duplications[2].DuplicateSize = report.Duplications[3].DuplicateSize

\* C10: two runs of analyzeDuplicates on one manifest, whatever the order in
\* which the buckets are visited, give the same set of groups and the same
\* totals; the reports differ at most in the order of groups of equal
\* duplicateSize; the manifest is the same before and after each call.
C10_DeterministicUpToTies ==
    runs = 2 =>
      /\ Groups(report) = Groups(report2)
      /\ Len(report.Duplications) = Len(report2.Duplications)
      /\ report.TotalDuplicateCount = report2.TotalDuplicateCount
      /\ report.TotalDuplicateSize = report2.TotalDuplicateSize
      /\ \A k \in DOMAIN report.Duplications :
           report.Duplications[k].DuplicateSize = report2.Duplications[k].DuplicateSize
      /\ manifest = input

C10_Witness ==
    /\ runs = 2
    /\ Len(report.Duplications) >= 2
    /\ report.Duplications # report2.Duplications
    /\ Groups(report) = Groups(report2)

====
